---- MODULE Spec2Model ----
(***************************************************************************)
(* Model of the incremental ingestion engine of the repository             *)
(* (src/scripts/telegram_scraper.py): main (the Run Coordinator),          *)
(* scrape_channel (the Channel Scan Loop), load_seen_ids (the Dedup Index) *)
(* and download_with_retries (the Retry/Backoff Executor).                 *)
(*                                                                         *)
(* The later stages, src/scripts/load_raw_to_postgres.py and               *)
(* src/scripts/yolo_enrich.py, several invocations of the scraper on one   *)
(* machine, the media fetch under a provider that signals without bound    *)
(* and the job of src/dagster_pipeline.py have specifications of their own *)
(* (SpecLoad, SpecEnrich, SpecInv, SpecIndex, SpecFetch, SpecPipeline)     *)
(* over the same variables.                                                *)
(*                                                                         *)
(* One run of main is one behaviour.  Every await that contacts the        *)
(* provider (the feed iteration, a media transfer) is a step whose outcome *)
(* is chosen by the environment: a value, a rate-limit signal              *)
(* (FloodWaitError) or a generic exception.                                *)
(***************************************************************************)
EXTENDS Integers, Sequences, FiniteSets, TLC

(***************************************************************************)
(* Bounds of the model.                                                    *)
(***************************************************************************)
MaxFeed == 2        \* longest generated feed of the single-source inputs
MaxRunFeed == 1     \* longest feed of a source in the multi-source inputs
MaxChannels == 2    \* longest requested source list
MaxFloods == 1      \* rate-limit signals the provider sends per media transfer
MaxAssets == 2      \* most files under IMG_DIR in an enrichment input
MaxStageRuns == 2   \* runs of a later stage over the same input
MaxInvocations == 2 \* invocations of the scraper on one machine
MaxClock == 2       \* seconds the wall clock advances while they run
MaxLines == 2       \* most lines of a log file in the inputs of the Dedup Index

(***************************************************************************)
(* Program constants.                                                      *)
(***************************************************************************)
DefaultMaxRetries == 4

None == "None"
NoLimit == 0        \* --limit not given (limit=None)
NoDate == 0         \* a date that is not set (None)
NoTime == -1        \* a timestamp that is not set
Null == -1          \* SQL NULL in an integer column (Python None)

(***************************************************************************)
(* Dates: a date is the integer YYYYMMDD, so < on integers is < on dates.  *)
(***************************************************************************)
Date(y, m, d) == y * 10000 + m * 100 + d
D0520 == Date(2025, 5, 20)
D0601 == Date(2025, 6, 1)
D0605 == Date(2025, 6, 5)
D0610 == Date(2025, 6, 10)
Today == Date(2025, 6, 15)      \* the value of date.today() during the run
Dates == {D0520, D0601, D0605, D0610, Today}

(***************************************************************************)
(* Source names are sequences of characters.                               *)
(***************************************************************************)
Digits == {"0", "1", "2", "3", "4", "5", "6", "7", "8", "9"}
Letters == {"a", "b", "c", "d", "e", "f", "g", "h", "i", "j", "k", "l", "m",
            "n", "o", "p", "q", "r", "s", "t", "u", "v", "w", "x", "y", "z"}
KeptChars == Digits \cup Letters \cup {"_", "-", ".", " "}

RECURSIVE StripLeft(_)
StripLeft(s) ==
    IF s # << >> /\ Head(s) = " " THEN StripLeft(Tail(s)) ELSE s

RECURSIVE StripRight(_)
StripRight(s) ==
    IF s # << >> /\ s[Len(s)] = " " THEN StripRight(SubSeq(s, 1, Len(s) - 1)) ELSE s

\* re.sub(r"[^\w\-_\. ]+", "_", s): every maximal run of characters outside
\* the kept class becomes one underscore.
RECURSIVE SubRuns(_, _)
SubRuns(s, inRun) ==
    IF s = << >> THEN << >>
    ELSE IF Head(s) \in KeptChars THEN << Head(s) >> \o SubRuns(Tail(s), FALSE)
    ELSE IF inRun THEN SubRuns(Tail(s), TRUE)
    ELSE << "_" >> \o SubRuns(Tail(s), TRUE)

sanitize_filename(name) == SubRuns(StripRight(StripLeft(name)), FALSE)

ChNews == << "n", "x" >>
ChAt == << "@", "c", "1" >>
ChCh1 == << "c", "h", "1" >>
RunNames == {ChNews, ChAt}
ChanNames == RunNames \cup {ChCh1}
SanNames == {sanitize_filename(c) : c \in ChanNames}

(***************************************************************************)
(* Messages of a feed.                                                     *)
(***************************************************************************)
NoMedia == [type |-> "none", mime |-> None, ext |-> None]
Photo == [type |-> "photo", mime |-> None, ext |-> None]
ImageDoc == [type |-> "document", mime |-> "image/png", ext |-> ".png"]
OtherDoc == [type |-> "document", mime |-> "application/pdf", ext |-> ".pdf"]

\* lines 178-184: a photo, or a document whose mime type starts with "image"
is_image(m) ==
    \/ m.media.type = "photo"
    \/ m.media.type = "document" /\ m.media.mime \in {"image/png", "image/jpeg"}

\* line 161: msg.date.date() if msg.date else date.today()
msg_date(m) == IF m.date = NoDate THEN Today ELSE m.date

Msg(i, d, md) == [id |-> i, date |-> d, media |-> md]

GenDates == {D0520, D0601, D0610}
GenMedia == {NoMedia, Photo}

\* Feeds are newest-first: ids are assigned increasingly by the source, so a
\* feed of n items yields the ids n, n-1, ..., 1.  The dates come in any
\* order; at most one item of a generated feed carries a photo (the scenario
\* feeds below carry more).
FeedsOfLen(n) ==
    {f \in [1..n -> [id : 1..n, date : GenDates, media : GenMedia]] :
        /\ \A k \in 1..n : f[k].id = n - k + 1
        /\ Cardinality({k \in 1..n : f[k].media = Photo}) <= 1}

GenFeeds(maxLen) == UNION {FeedsOfLen(n) : n \in 0..maxLen}

\* Scenario A of the specification: ids 5,4,3,2,1, no date bounds.
ScenarioA == << Msg(5, D0610, NoMedia), Msg(4, D0610, Photo), Msg(3, D0605, NoMedia),
                Msg(2, D0601, NoMedia), Msg(1, D0601, NoMedia) >>

\* Scenario B of the specification: dates 06-10, 06-05, 05-20, 06-01.
ScenarioB == << Msg(4, D0610, NoMedia), Msg(3, D0605, NoMedia),
                Msg(2, D0520, NoMedia), Msg(1, D0601, NoMedia) >>

\* A feed whose item below since is followed by a newer item.
ScenarioSince == << Msg(3, D0601, Photo), Msg(2, D0520, NoMedia), Msg(1, D0610, Photo) >>

\* A feed with documents and an item without a date.
ScenarioDocs == << Msg(3, NoDate, ImageDoc), Msg(2, D0605, OtherDoc), Msg(1, D0601, NoMedia) >>

\* Scenario C of the specification: item 42 of 2025-06-01 carries a photo.
ScenarioC == << Msg(42, D0601, Photo) >>

\* The feed of n text items of one day.
PlainFeed(n) == [k \in 1..n |-> Msg(n - k + 1, D0610, NoMedia)]

FeedIds(f) == {f[k].id : k \in 1..Len(f)}

VARIABLES
    \* inputs of the run
    API_ID,         \* int(TELEGRAM_API_ID), 0 when the variable is absent or empty
    API_HASH,       \* TELEGRAM_API_HASH, "" when the variable is absent
    channels_file,  \* the lines of the file --channels-file names (none: no such file)
    cli_channels,   \* args.channels
    requested,      \* the channels of the channels file, then of --channels
    limit, incremental, since, until,
    feed,           \* feed[c]: what the provider lists for source c, newest first
    imagesAtStart,  \* the files under IMG_DIR when the run starts
    \* main
    pc, channels, chIdx, manifest,
    connected,      \* the TelegramClient is started (line 221) and not disconnected
    manifestFiles,  \* the files under MANIFEST_DIR
    \* scrape_channel
    pass, seen_ids, cursor, count,
    \* download_with_retries
    cur, dest, attempt, downloaded,
    \* disk
    log,            \* log[s][d]: the lines of MSG_DIR/<d>/<s>.json
    images,         \* the files under IMG_DIR
    \* history
    now, scanned, listings, logAtStart, log0, fetched, stopAt, floods, genFails, outcome,
    \* rate-limit signals
    src_signal,     \* seconds of the FloodWaitError main caught for this source, 0: none
    src_slept,      \* seconds main slept after it, 0: not yet
    dl_signal,      \* seconds of the last FloodWaitError of this transfer, 0: none
    dl_slept        \* seconds download_with_retries slept after it

inputVars == << API_ID, API_HASH, channels_file, cli_channels, requested, limit, incremental, since, until, feed, imagesAtStart >>
mainVars == << pc, channels, chIdx, manifest, manifestFiles, connected >>
scanVars == << pass, seen_ids, cursor, count >>
dlVars == << cur, dest, attempt, downloaded >>
diskVars == << log, images >>
histVars == << now, scanned, listings, logAtStart, log0, fetched, stopAt, floods, genFails,
              outcome >>
srcWait == << src_signal, src_slept >>
dlWait == << dl_signal, dl_slept >>
scraperVars == << inputVars, mainVars, scanVars, dlVars, diskVars, histVars, srcWait, dlWait >>

\* The later stages of the pipeline, each run as a program of its own.
VARIABLES
    \* yolo_enrich.py
    assets,         \* the files under IMG_DIR/<channel>/ that the enrichment finds
    epc,            \* position of yolo_enrich.main
    todo,           \* the files the loops of lines 112-138 have not visited yet
    all_records,
    out_json,       \* OUT_DIR/all_detections.json
    ins,            \* index of the record the loop of line 146 inserts next
    image_detections, \* the rows of raw.image_detections, in insertion order
    enrichRuns      \* completed runs of yolo_enrich.main

VARIABLES
    \* load_raw_to_postgres.py
    lpc,            \* position of load_raw_to_postgres.main
    files,          \* the files the loops of lines 59-65 have not ingested yet
    total,
    telegram_messages, \* the rows of raw.telegram_messages, in insertion order
    loadRuns        \* completed runs of load_raw_to_postgres.main

VARIABLES
    \* several invocations of telegram_scraper.main on one machine
    clock,          \* datetime.utcnow(), in whole seconds
    inv,            \* inv[i]: how far invocation i is, and its run_id
    manifestDir     \* the files under MANIFEST_DIR: name, writer, content

VARIABLES
    \* the job telegram_pipeline of dagster_pipeline.py
    max_concurrent, \* ops the executor of the run lets run at once, 0: no run
    started,        \* the ops whose step the executor has started
    ended           \* the steps that are over: op, success or failure, exit status

enrichVars == << assets, epc, todo, all_records, out_json, ins, image_detections, enrichRuns >>
loadVars == << lpc, files, total, telegram_messages, loadRuns >>
invVars == << clock, inv, manifestDir >>
pipeVars == << max_concurrent, started, ended >>
stageVars == << enrichVars, loadVars, invVars, pipeVars >>
notEnrich == << scraperVars, loadVars, invVars, pipeVars >>
notLoad == << scraperVars, enrichVars, invVars, pipeVars >>
notInv == << scraperVars, enrichVars, loadVars, pipeVars >>
notPipe == << scraperVars, enrichVars, loadVars, invVars >>
vars == << scraperVars, stageVars >>

(***************************************************************************)
(* Helpers.                                                                *)
(***************************************************************************)
Min(a, b) == IF a < b THEN a ELSE b

\* line 234: list(dict.fromkeys(channels)), first occurrences in order
RECURSIVE DedupFrom(_, _)
DedupFrom(s, seen) ==
    IF s = << >> THEN << >>
    ELSE IF Head(s) \in seen THEN DedupFrom(Tail(s), seen)
    ELSE << Head(s) >> \o DedupFrom(Tail(s), seen \cup {Head(s)})

\* The list kept as it is.
dict_fromkeys_Keep(s) == s

dict_fromkeys(s) == DedupFrom(s, {})

\* lines 227-231: the stripped lines of the channels file that are neither
\* blank nor comments
RECURSIVE FileEntries(_)
FileEntries(lines) ==
    IF lines = << >> THEN << >>
    ELSE LET ln == StripRight(StripLeft(Head(lines)))
         IN  (IF ln # << >> /\ Head(ln) # "#" THEN << ln >> ELSE << >>)
             \o FileEntries(Tail(lines))

\* lines 224-233: the channels file first, then --channels
ReadChannels(lines, cli) == FileEntries(lines) \o cli

\* Lines of a channels file: names, a padded name, a comment, a blank line.
FileLines == {ChNews, ChAt, << " ", "n", "x", " " >>, << "#", "n", "x" >>, << " " >>}

\* lines 72-100: the JSON line written for a message
message_to_serializable(m) == [json |-> "object", id |-> m.id, date |-> m.date]

\* Other lines a log file can hold: text that is not JSON (a torn line), JSON
\* without an integer "id", and bytes that are not UTF-8.
NotJson == [json |-> "invalid", id |-> 0, date |-> NoDate]
NoIntId == [json |-> "no_int_id", id |-> 0, date |-> NoDate]
BadBytes == [json |-> "undecodable", id |-> 0, date |-> NoDate]

\* lines 139-144: the ids of the lines that parse to an object with an
\* integer id; json.loads or obj.get raising skips the line
IdsOfLines(lines) == {lines[k].id : k \in {j \in 1..Len(lines) : lines[j].json = "object"}}

\* The ids of the well-formed lines of the files <day>/<s>.json of a disk state.
LogIds(lg, s) == UNION {IdsOfLines(lg[s][d]) : d \in Dates}

\* lines 136-146: how many lines of a file the loop of line 138 gets to.  The
\* file is decoded as UTF-8 while it is iterated; undecodable bytes raise
\* UnicodeDecodeError in the for statement itself, outside the inner try, so
\* the outer handler gives the file up.  The decoder works on blocks of
\* bytes, so lines before the bad one may be lost with it.
Readable(lines) ==
    LET bad == {k \in 1..Len(lines) : lines[k].json = "undecodable"}
    IN  IF bad = {} THEN {Len(lines)}
        ELSE 0..((CHOOSE k \in bad : \A j \in bad : k <= j) - 1)

FileOutcomes(lines) == {IdsOfLines(SubSeq(lines, 1, n)) : n \in Readable(lines)}

RECURSIVE DirOutcomes(_, _)
DirOutcomes(s, days) ==
    IF days = {} THEN {{}}
    ELSE LET d == CHOOSE x \in days : TRUE
         IN  {a \cup b : a \in FileOutcomes(log[s][d]), b \in DirOutcomes(s, days \ {d})}

\* A Dedup Index that reads the log of one day only.
load_seen_ids_OneDay(channel) == DirOutcomes(sanitize_filename(channel), {Today})

\* lines 126-147: the sets load_seen_ids can return for a channel (one set
\* unless a file holds undecodable bytes)
load_seen_ids(channel) == DirOutcomes(sanitize_filename(channel), Dates)

\* line 157: client.iter_messages(channel, limit=limit) yields at most limit
\* messages of the listing, newest first
iter_messages(channel) ==
    IF limit = NoLimit THEN feed[channel]
    ELSE SubSeq(feed[channel], 1, Min(limit, Len(feed[channel])))

\* lines 186-196: the destination of an image; n = 0 is the name without a
\* numeric suffix, n > 0 the name <stem>_<n><ext>
ImagePath(s, m, n) ==
    [chan |-> s, id |-> m.id, date |-> msg_date(m),
     ext |-> IF m.media.type = "document" /\ m.media.ext # None THEN m.media.ext ELSE ".jpg",
     n |-> n]

\* No path: the None that download_with_retries returns.
NoPath == [chan |-> << >>, id |-> 0, date |-> NoDate, ext |-> None, n |-> 0]

\* The manifest before line 240 builds it.
NoManifest == [channels |-> << >>, limit |-> NoLimit, incremental |-> FALSE,
               since |-> NoDate, until |-> NoDate, started_at |-> NoTime,
               finished_at |-> NoTime, results |-> << >>]

\* str(n) of a natural number, as characters
DigitChar(k) == << "0", "1", "2", "3", "4", "5", "6", "7", "8", "9" >>[k + 1]

RECURSIVE IntChars(_)
IntChars(k) == IF k < 10 THEN << DigitChar(k) >> ELSE IntChars(k \div 10) \o << DigitChar(k % 10) >>

\* strftime("%Y-%m-%d") of a date
Pad2(k) == << DigitChar(k \div 10), DigitChar(k % 10) >>
DateChars(d) == IntChars(d \div 10000) \o << "-" >> \o Pad2((d \div 100) % 100)
                \o << "-" >> \o Pad2(d % 100)

ExtChars(e) ==
    CASE e = ".jpg" -> << ".", "j", "p", "g" >>
      [] e = ".png" -> << ".", "p", "n", "g" >>
      [] e = ".pdf" -> << ".", "p", "d", "f" >>

\* lines 190 and 195: the stem of the file name a path record stands for,
\* "<sanitized>_<id>_<date>" and, from the loop of line 194, "_<n>"
FileStem(p) ==
    p.chan \o << "_" >> \o IntChars(p.id) \o << "_" >> \o DateChars(p.date)
    \o (IF p.n = 0 THEN << >> ELSE << "_" >> \o IntChars(p.n))

FileName(p) == FileStem(p) \o ExtChars(p.ext)

RECURSIVE FreePath(_, _, _)
FreePath(s, m, i) ==
    IF ImagePath(s, m, i) \in images THEN FreePath(s, m, i + 1) ELSE ImagePath(s, m, i)

Destination_NoLoop(s, m) == ImagePath(s, m, 0)

\* lines 191-196: dest is the plain name, then the loop tries _1, _2, ...
Destination(s, m) == FreePath(s, m, 0)

\* The lines a prior run left in the file of date d, for the items P of feed f.
RECURSIVE PriorLines(_, _, _)
PriorLines(f, P, d) ==
    IF f = << >> THEN << >>
    ELSE (IF Head(f).id \in P /\ msg_date(Head(f)) = d
          THEN << message_to_serializable(Head(f)) >> ELSE << >>)
         \o PriorLines(Tail(f), P, d)

PriorImages(f, P, s) ==
    {ImagePath(s, f[k], 0) : k \in {j \in 1..Len(f) : f[j].id \in P /\ is_image(f[j])}}

SeqsUpTo(S, n) == UNION {[1..k -> S] : k \in 0..n}

ch == channels[chIdx]
san == sanitize_filename(ch)

(***************************************************************************)
(* Initial states: the inputs of one run and the disk prior runs left.     *)
(***************************************************************************)
InitRest ==
    /\ pc = "start" /\ channels = << >> /\ chIdx = 0
    /\ manifest = NoManifest /\ manifestFiles = {} /\ connected = FALSE
    /\ pass = None /\ seen_ids = {} /\ cursor = 0 /\ count = 0
    /\ cur = 0 /\ dest = NoPath /\ attempt = 0 /\ downloaded = NoPath
    /\ now = 0 /\ scanned = {} /\ listings = [c \in ChanNames |-> 0]
    /\ logAtStart = log /\ log0 = log /\ imagesAtStart = images
    /\ fetched = {} /\ stopAt = 0 /\ floods = 0 /\ genFails = 0 /\ outcome = None
    /\ src_signal = 0 /\ src_slept = 0 /\ dl_signal = 0 /\ dl_slept = 0

\* The enrichment is not running.
EnrichIdle ==
    /\ assets = {} /\ epc = "off" /\ todo = {} /\ all_records = << >> /\ out_json = << >>
    /\ ins = 0 /\ image_detections = << >> /\ enrichRuns = 0

\* One source, feeds of every shape, every filter.
InitScan ==
    /\ API_ID = 12345 /\ API_HASH = "hash"
    /\ channels_file = << >>
    /\ cli_channels = << ChAt >>
    /\ requested = ReadChannels(channels_file, cli_channels)
    /\ limit \in {NoLimit, 1, 2}
    /\ incremental \in BOOLEAN
    /\ since \in {NoDate, D0601}
    /\ until \in {NoDate, D0610}
    /\ feed \in {[c \in ChanNames |-> IF c = requested[1] THEN f ELSE << >>] :
                    f \in GenFeeds(MaxFeed) \cup {ScenarioA, ScenarioB, ScenarioSince, ScenarioDocs}}
    /\ \E P \in SUBSET FeedIds(feed[requested[1]]) :
        \* without --incremental the disk is fresh or holds the whole feed
        /\ incremental \/ P \in {{}, FeedIds(feed[requested[1]])}
        /\ log = [s \in SanNames |-> [d \in Dates |->
                    IF s = sanitize_filename(requested[1])
                    THEN PriorLines(feed[requested[1]], P, d) ELSE << >>]]
        /\ images = PriorImages(feed[requested[1]], P, sanitize_filename(requested[1]))

\* Several sources, feeds of text items, no filter.
InitRun ==
    /\ API_ID \in {0, 12345} /\ API_HASH \in {"", "hash"}
    /\ channels_file = << >>
    /\ cli_channels \in SeqsUpTo(RunNames, MaxChannels)
    /\ requested = ReadChannels(channels_file, cli_channels)
    /\ limit = NoLimit
    /\ incremental \in BOOLEAN
    /\ since = NoDate
    /\ until = NoDate
    /\ feed \in [ChanNames -> {PlainFeed(n) : n \in 0..MaxRunFeed}]
    /\ \A c \in ChanNames : (\A k \in 1..Len(requested) : requested[k] # c) => feed[c] = << >>
    /\ log = [s \in SanNames |-> [d \in Dates |-> << >>]]
    /\ images = {}

\* A channels file and --channels, sources with empty feeds.
InitListed ==
    /\ API_ID = 12345 /\ API_HASH = "hash"
    /\ channels_file \in SeqsUpTo(FileLines, MaxChannels)
    /\ cli_channels \in SeqsUpTo(RunNames, 1)
    /\ channels_file # << >>
    /\ requested = ReadChannels(channels_file, cli_channels)
    /\ limit = NoLimit
    /\ incremental = FALSE
    /\ since = NoDate
    /\ until = NoDate
    /\ feed = [c \in ChanNames |-> << >>]
    /\ log = [s \in SanNames |-> [d \in Dates |-> << >>]]
    /\ images = {}

\* The item of scenario C, on a disk where zero, one or two earlier runs
\* without --incremental already stored its image.
InitCollide ==
    /\ API_ID = 12345 /\ API_HASH = "hash"
    /\ channels_file = << >>
    /\ cli_channels = << ChCh1 >>
    /\ requested = ReadChannels(channels_file, cli_channels)
    /\ limit = NoLimit
    /\ incremental \in BOOLEAN
    /\ since = NoDate
    /\ until = NoDate
    /\ feed = [c \in ChanNames |-> IF c = ChCh1 THEN ScenarioC ELSE << >>]
    /\ \E runs \in 0..2 :
        /\ log = [s \in SanNames |-> [d \in Dates |->
                    IF s = sanitize_filename(ChCh1) /\ d = D0601
                    THEN [k \in 1..runs |-> message_to_serializable(ScenarioC[1])]
                    ELSE << >>]]
        /\ images = {ImagePath(sanitize_filename(ChCh1), ScenarioC[1], n) : n \in 0..(runs - 1)}

\* The loader is not running.
LoadIdle ==
    lpc = "off" /\ files = {} /\ total = 0 /\ telegram_messages = << >> /\ loadRuns = 0

\* No invocation is tracked.
InvIdle ==
    clock = 0 /\ inv = << >> /\ manifestDir = {}

\* The ops of dagster_pipeline.py, lines 4-22.
Ops == {"scrape_op", "load_op", "dbt_op", "yolo_op"}

\* No run of the job telegram_pipeline.
PipeIdle ==
    max_concurrent = 0 /\ started = {} /\ ended = {}

Init == (InitScan \/ InitRun \/ InitCollide \/ InitListed) /\ InitRest /\ EnrichIdle /\ LoadIdle /\ InvIdle /\ PipeIdle

\* Only the id looked at.
credentials_missing_IdOnly == API_ID = 0

\* line 212: not API_ID or not API_HASH
credentials_missing == API_ID = 0 \/ API_HASH = ""

(***************************************************************************)
(* main, lines 211-249.                                                    *)
(***************************************************************************)
MainStart ==
    /\ pc = "start"
    /\ IF credentials_missing
       THEN /\ pc' = "exit1"                \* sys.exit(1)
            /\ UNCHANGED << channels, chIdx, manifest, connected >>
       ELSE /\ connected' = TRUE            \* lines 220-221
            /\ channels' = dict_fromkeys(ReadChannels(channels_file, cli_channels))
            /\ IF channels' = << >>
               THEN /\ pc' = "no_channels"  \* return
                    /\ UNCHANGED << chIdx, manifest >>
               ELSE /\ pc' = "loop"
                    /\ chIdx' = 1
                    /\ manifest' = [channels |-> channels', limit |-> limit,
                                    incremental |-> incremental, since |-> since,
                                    until |-> until, started_at |-> now,
                                    finished_at |-> NoTime, results |-> << >>]
    /\ UNCHANGED << stageVars, srcWait, dlWait, inputVars, manifestFiles, scanVars, dlVars, diskVars, histVars >>

\* The line put in front of the file.
write_line_AtFront(file, line) == << line >> \o file

\* lines 174-175: open(file_path, "a") and write the line
write_line(file, line) == Append(file, line)

\* The seconds a FloodWaitError carries; 60 is also what getattr(fw,
\* "seconds", 60) gives for a signal without the attribute.
FloodSeconds == {1, 60}

\* The margin left out.
main_flood_wait_NoMargin(seconds) == seconds

\* line 259: wait = int(getattr(fw, "seconds", 60)) + 1
main_flood_wait(seconds) == seconds + 1

\* lines 114 and 116: wait = int(getattr(fw, "seconds", 60)); sleep(wait + 1)
download_flood_wait(seconds) == seconds + 1

(***************************************************************************)
(* scrape_channel, lines 150-208, as called by main on lines 253 and 262.  *)
(***************************************************************************)
\* The index of the first pass kept for the scan after a rate-limit exception.
BeginPass_IndexOncePerRun(p) ==
    /\ pass' = p
    /\ seen_ids' \in IF p = "retry" THEN {seen_ids}
                   ELSE IF incremental THEN load_seen_ids(ch) ELSE {{}}
    /\ cursor' = 0
    /\ count' = 0
    /\ pc' = "iter"
    /\ now' = now + 1
    /\ scanned' = scanned \cup {ch}
    /\ listings' = [listings EXCEPT ![ch] = @ + 1]
    /\ log0' = log
    /\ fetched' = {}
    /\ stopAt' = 0
    /\ UNCHANGED << stageVars, connected, dlWait, inputVars, channels, chIdx, manifest, manifestFiles, dlVars,
                    diskVars, logAtStart, floods, genFails, outcome >>

\* lines 153-157: a pass starts a new listing of the channel
BeginPass(p) ==
    /\ pass' = p
    /\ seen_ids' \in IF incremental THEN load_seen_ids(ch) ELSE {{}}
    /\ cursor' = 0
    /\ count' = 0
    /\ pc' = "iter"
    /\ now' = now + 1
    /\ scanned' = scanned \cup {ch}
    /\ listings' = [listings EXCEPT ![ch] = @ + 1]
    /\ log0' = log
    /\ fetched' = {}
    /\ stopAt' = 0
    /\ UNCHANGED << stageVars, connected, dlWait, inputVars, channels, chIdx, manifest, manifestFiles, dlVars,
                    diskVars, logAtStart, floods, genFails, outcome >>

\* line 253
CallScrape ==
    /\ pc = "loop"
    /\ chIdx <= Len(channels)
    /\ BeginPass("first")
    /\ UNCHANGED srcWait

\* lines 258-261: the handler of a FloodWaitError sleeps
FloodSleep ==
    /\ pc = "flood_sleep"
    /\ src_slept' = main_flood_wait(src_signal)     \* asyncio.sleep(wait)
    /\ pc' = "flood_slept"
    /\ UNCHANGED << stageVars, connected, src_signal, dlWait, inputVars, channels, chIdx, manifest,
                    manifestFiles, scanVars, dlVars, diskVars, histVars >>

\* line 262: the handler scans the source again
RetryScrape ==
    /\ pc = "flood_slept"
    /\ BeginPass("retry")
    /\ src_signal' = 0 /\ src_slept' = 0    \* the signal has been dealt with

\* lines 207-208 and 257 / 266: scrape_channel returns count to main
ReturnCount ==
    /\ manifest' = [manifest EXCEPT !.results = @ @@ (ch :>
            [processed |-> count,
             status |-> IF pass = "first" THEN "ok" ELSE "ok_after_wait"])]
    /\ chIdx' = chIdx + 1
    /\ pc' = "loop"
    /\ now' = now + 1

\* The lower bound taken as exclusive.
BeforeSince_Exclusive(m) == since # NoDate /\ msg_date(m) <= since

\* line 163
BeforeSince(m) == since # NoDate /\ msg_date(m) < since

\* The upper bound taken as inclusive.
NotBeforeUntil_Inclusive(m) == until # NoDate /\ msg_date(m) > until

\* line 165
NotBeforeUntil(m) == until # NoDate /\ msg_date(m) >= until

HasNext == cursor < Len(iter_messages(ch))
msg == iter_messages(ch)[cursor + 1]

\* lines 158-159
SkipSeen ==
    /\ pc = "iter" /\ HasNext
    /\ msg.id \in seen_ids
    /\ cursor' = cursor + 1
    /\ UNCHANGED << stageVars, srcWait, dlWait, inputVars, mainVars, pass, seen_ids, count, dlVars, diskVars, histVars >>

\* The lower bound as a per-item filter: continue instead of break.
BreakSince_AsContinue ==
    /\ pc = "iter" /\ HasNext
    /\ msg.id \notin seen_ids
    /\ BeforeSince(msg)
    /\ cursor' = cursor + 1
    /\ UNCHANGED << stageVars, srcWait, dlWait, inputVars, mainVars, pass, seen_ids, count, dlVars, diskVars, histVars >>

\* lines 163-164
BreakSince ==
    /\ pc = "iter" /\ HasNext
    /\ msg.id \notin seen_ids
    /\ BeforeSince(msg)
    /\ cursor' = cursor + 1
    /\ stopAt' = cursor + 1
    /\ ReturnCount
    /\ UNCHANGED << stageVars, connected, srcWait, dlWait, inputVars, channels, manifestFiles, pass, seen_ids, count, dlVars,
                    diskVars, scanned, listings, logAtStart, log0, fetched, floods, genFails,
                    outcome >>

\* lines 165-166
SkipUntil ==
    /\ pc = "iter" /\ HasNext
    /\ msg.id \notin seen_ids
    /\ ~BeforeSince(msg)
    /\ NotBeforeUntil(msg)
    /\ cursor' = cursor + 1
    /\ UNCHANGED << stageVars, srcWait, dlWait, inputVars, mainVars, pass, seen_ids, count, dlVars, diskVars, histVars >>

\* lines 168-208: the item is appended to its log; an image starts a transfer
Persist ==
    /\ pc = "iter" /\ HasNext
    /\ msg.id \notin seen_ids
    /\ ~BeforeSince(msg)
    /\ ~NotBeforeUntil(msg)
    /\ cursor' = cursor + 1
    /\ log' = [log EXCEPT ![san][msg_date(msg)] = write_line(@, message_to_serializable(msg))]
    /\ IF is_image(msg)
       THEN /\ dest' = Destination(san, msg)
            /\ cur' = cursor + 1
            /\ attempt' = 0
            /\ downloaded' = NoPath
            /\ floods' = 0
            /\ genFails' = 0
            /\ outcome' = None
            /\ fetched' = fetched \cup {msg.id}
            /\ pc' = "download"
            /\ UNCHANGED count
       ELSE /\ count' = count + 1
            /\ UNCHANGED << pc, dlVars, fetched, floods, genFails, outcome >>
    /\ UNCHANGED << stageVars, connected, srcWait, dlWait, inputVars, channels, chIdx, manifest, manifestFiles, pass, seen_ids,
                    images, now, scanned, listings, logAtStart, log0, stopAt >>

\* line 157 ends the loop, lines 207-208
FeedEnd ==
    /\ pc = "iter" /\ ~HasNext
    /\ ReturnCount
    /\ UNCHANGED << stageVars, connected, srcWait, dlWait, inputVars, channels, manifestFiles, scanVars, dlVars, diskVars,
                    scanned, listings, logAtStart, log0, fetched, stopAt, floods, genFails,
                    outcome >>

\* A FloodWaitError raised by the feed iteration leaves scrape_channel.  In the
\* first pass main catches it (line 258); raised by the call of line 262 it is
\* raised inside the handler and leaves main.
FeedFlood ==
    /\ pc = "iter"
    /\ pc' = IF pass = "first" THEN "flood_sleep" ELSE "crashed"
    /\ now' = now + 1
    /\ \E s \in FloodSeconds : src_signal' = s      \* fw.seconds
    /\ src_slept' = 0
    /\ UNCHANGED << stageVars, connected, dlWait, inputVars, channels, chIdx, manifest, manifestFiles, scanVars, dlVars,
                    diskVars, scanned, listings, logAtStart, log0, fetched, stopAt, floods, genFails,
                    outcome >>

\* The lines of the failed pass taken back.
FeedError_RollsBack ==
    /\ pc = "iter"
    /\ IF pass = "first"
       THEN /\ manifest' = [manifest EXCEPT !.results = @ @@ (ch :>
                    [processed |-> 0, status |-> "error:cause"])]
            /\ chIdx' = chIdx + 1
            /\ pc' = "loop"
       ELSE /\ pc' = "crashed"
            /\ UNCHANGED << manifest, chIdx >>
    /\ now' = now + 1
    /\ log' = [log EXCEPT ![san] = log0[san]]
    /\ UNCHANGED << stageVars, connected, srcWait, dlWait, inputVars, channels, manifestFiles, scanVars, dlVars,
                    images, scanned, listings, logAtStart, log0, fetched, stopAt, floods, genFails,
                    outcome >>

\* Any other exception raised in scrape_channel: lines 267-269 in the first
\* pass; in the retry it leaves main as well.
FeedError ==
    /\ pc = "iter"
    /\ IF pass = "first"
       THEN /\ manifest' = [manifest EXCEPT !.results = @ @@ (ch :>
                    [processed |-> 0, status |-> "error:cause"])]
            /\ chIdx' = chIdx + 1
            /\ pc' = "loop"
       ELSE /\ pc' = "crashed"
            /\ UNCHANGED << manifest, chIdx >>
    /\ now' = now + 1
    /\ UNCHANGED << stageVars, connected, srcWait, dlWait, inputVars, channels, manifestFiles, scanVars, dlVars,
                    diskVars, scanned, listings, logAtStart, log0, fetched, stopAt, floods, genFails,
                    outcome >>

(***************************************************************************)
(* download_with_retries, lines 106-123, and lines 197-205 after it.       *)
(***************************************************************************)
\* lines 198-205: back in the scan loop with the result of the transfer
AfterDownload(result, how) ==
    /\ downloaded' = result
    /\ outcome' = how
    /\ count' = count + 1
    /\ pc' = "iter"
    /\ attempt' = 0          \* the locals of download_with_retries are gone
    /\ floods' = 0
    /\ genFails' = 0
    /\ dl_signal' = 0 /\ dl_slept' = 0

\* lines 111-112: the transfer succeeds and the file is at dest
DownloadOk ==
    /\ pc = "download" /\ attempt < DefaultMaxRetries
    /\ images' = images \cup {dest}
    /\ AfterDownload(dest, "ok")
    /\ UNCHANGED << stageVars, connected, srcWait, inputVars, channels, chIdx, manifest, manifestFiles, pass, seen_ids,
                    cursor, cur, dest, log,
                    now, scanned, listings, logAtStart, log0, fetched, stopAt >>

\* line 112: download_media returns nothing
DownloadNothing ==
    /\ pc = "download" /\ attempt < DefaultMaxRetries
    /\ AfterDownload(NoPath, "nothing")
    /\ UNCHANGED << stageVars, connected, srcWait, inputVars, channels, chIdx, manifest, manifestFiles, pass, seen_ids,
                    cursor, cur, dest, diskVars,
                    now, scanned, listings, logAtStart, log0, fetched, stopAt >>

\* A rate-limit signal that uses up an attempt.
DownloadFlood_CountsAttempt ==
    /\ pc = "download" /\ attempt < DefaultMaxRetries
    /\ floods < MaxFloods
    /\ floods' = floods + 1
    /\ \E s \in FloodSeconds :
        /\ dl_signal' = s                           \* fw.seconds
        /\ dl_slept' = download_flood_wait(s)       \* asyncio.sleep(wait + 1)
    /\ attempt' = attempt + 1
    /\ UNCHANGED << stageVars, srcWait, inputVars, mainVars, scanVars, cur, dest, downloaded, diskVars,
                    now, scanned, listings, logAtStart, log0, fetched, stopAt, genFails,
                    outcome >>

\* lines 113-116: a rate-limit signal; sleep, then try again
DownloadFlood ==
    /\ pc = "download" /\ attempt < DefaultMaxRetries
    /\ floods < MaxFloods
    /\ floods' = floods + 1
    /\ \E s \in FloodSeconds :
        /\ dl_signal' = s                           \* fw.seconds
        /\ dl_slept' = download_flood_wait(s)       \* asyncio.sleep(wait + 1)
    /\ UNCHANGED << stageVars, srcWait, inputVars, mainVars, scanVars, dlVars, diskVars,
                    now, scanned, listings, logAtStart, log0, fetched, stopAt, genFails,
                    outcome >>

\* A count of generic failures that starts over instead of reaching the budget.
DownloadError_WrapsAround ==
    /\ pc = "download" /\ attempt < DefaultMaxRetries
    /\ attempt' = (attempt + 1) % DefaultMaxRetries
    /\ genFails' = (genFails + 1) % DefaultMaxRetries
    /\ UNCHANGED << stageVars, srcWait, dlWait, inputVars, mainVars, scanVars, cur, dest, downloaded, diskVars,
                    now, scanned, listings, logAtStart, log0, fetched, stopAt, floods,
                    outcome >>

\* lines 117-121: a generic failure; count it, sleep, then try again
DownloadError ==
    /\ pc = "download" /\ attempt < DefaultMaxRetries
    /\ attempt' = attempt + 1
    /\ genFails' = genFails + 1
    /\ UNCHANGED << stageVars, srcWait, dlWait, inputVars, mainVars, scanVars, cur, dest, downloaded, diskVars,
                    now, scanned, listings, logAtStart, log0, fetched, stopAt, floods,
                    outcome >>

\* Used-up attempts raised as an exception that ends the run.
DownloadGiveUp_Raises ==
    /\ pc = "download" /\ ~(attempt < DefaultMaxRetries)
    /\ pc' = "crashed"
    /\ outcome' = "gave_up"
    /\ UNCHANGED << stageVars, connected, srcWait, dlWait, inputVars, channels, chIdx, manifest, manifestFiles, scanVars, dlVars,
                    diskVars, now, scanned, listings, logAtStart, log0, fetched, stopAt,
                    floods, genFails >>

\* lines 109 and 122-123: the attempts are used up, the result is None
DownloadGiveUp ==
    /\ pc = "download" /\ ~(attempt < DefaultMaxRetries)
    /\ AfterDownload(NoPath, "gave_up")
    /\ UNCHANGED << stageVars, connected, srcWait, inputVars, channels, chIdx, manifest, manifestFiles, pass, seen_ids,
                    cursor, cur, dest, diskVars,
                    now, scanned, listings, logAtStart, log0, fetched, stopAt >>

(***************************************************************************)
(* main, lines 271-278.                                                    *)
(***************************************************************************)
WriteManifest ==
    /\ pc = "loop"
    /\ chIdx > Len(channels)
    /\ manifest' = [manifest EXCEPT !.finished_at = now]
    /\ manifestFiles' = manifestFiles \cup {manifest'}
    /\ connected' = FALSE                   \* line 277
    /\ pc' = "done"
    /\ UNCHANGED << stageVars, srcWait, dlWait, inputVars, channels, chIdx, scanVars, dlVars, diskVars, histVars >>

Next ==
    \/ MainStart
    \/ CallScrape
    \/ FloodSleep
    \/ RetryScrape
    \/ SkipSeen
    \/ BreakSince
    \/ SkipUntil
    \/ Persist
    \/ FeedEnd
    \/ FeedFlood
    \/ FeedError
    \/ DownloadOk
    \/ DownloadNothing
    \/ DownloadFlood
    \/ DownloadError
    \/ DownloadGiveUp
    \/ WriteManifest

Spec == Init /\ [][Next]_vars

(***************************************************************************)
(* The enrichment stage, src/scripts/yolo_enrich.py.  A run of main visits *)
(* the files under IMG_DIR in the order the directory listing gives them,  *)
(* keeps a record for every valid image with detections, writes the JSON   *)
(* output and inserts the records into raw.image_detections.               *)
(***************************************************************************)
DigitVal(c) == CHOOSE k \in 0..9 : DigitChar(k) = c

RECURSIVE SkipToDigit(_)
SkipToDigit(s) == IF s = << >> \/ Head(s) \in Digits THEN s ELSE SkipToDigit(Tail(s))

RECURSIVE TakeDigits(_)
TakeDigits(s) ==
    IF s = << >> \/ Head(s) \notin Digits THEN << >> ELSE << Head(s) >> \o TakeDigits(Tail(s))

RECURSIVE CharsToInt(_)
CharsToInt(s) ==
    IF s = << >> THEN 0 ELSE 10 * CharsToInt(SubSeq(s, 1, Len(s) - 1)) + DigitVal(s[Len(s)])

\* lines 129-130: m = re.search(r"(\d+)", img_path.stem);
\* message_id = int(m.group(1)) if m else None
FirstNumber(stem) ==
    LET run == TakeDigits(SkipToDigit(stem))
    IN  IF run = << >> THEN Null ELSE CharsToInt(run)

\* A file under IMG_DIR: its directory, its name, whether cv2 can read it
\* (lines 36-48), how many objects the detector finds in it, and the item it
\* was retrieved for (0: a file Media Retrieval did not write).
Shot(c, m, n) ==
    LET p == ImagePath(sanitize_filename(c), m, n)
    IN  [dir |-> p.chan, stem |-> FileStem(p), ext |-> p.ext,
         valid |-> TRUE, objects |-> 1, item |-> m.id]

ForeignFile == [dir |-> sanitize_filename(ChNews), stem |-> << "p", "h", "o", "t", "o" >>,
                ext |-> ".jpg", valid |-> TRUE, objects |-> 1, item |-> 0]
BrokenFile == [Shot(ChNews, Msg(8, D0610, Photo), 0) EXCEPT !.valid = FALSE, !.objects = 0]
EmptyScene == [Shot(ChNews, Msg(9, D0610, Photo), 0) EXCEPT !.objects = 0]

AssetFiles ==
    {Shot(ChCh1, ScenarioC[1], 0), Shot(ChCh1, ScenarioC[1], 1),
     Shot(ChNews, Msg(7, D0610, Photo), 0), Shot(ChAt, Msg(3, D0601, ImageDoc), 0),
     ForeignFile, BrokenFile, EmptyScene}

is_valid_image(a) == a.valid

\* lines 78-101: the detections of an image, the same at every run
run_yolo_on_image(a) == a.objects

image_path(a) == [dir |-> a.dir, name |-> a.stem \o ExtChars(a.ext)]

\* lines 132-137
Record(a) ==
    [channel |-> a.dir, message_id |-> FirstNumber(a.stem),
     image_path |-> image_path(a), detection |-> run_yolo_on_image(a)]

\* The unique index idx_image_unique of lines 70-71, as ON CONFLICT of line
\* 150 consults it: two rows conflict when all three columns are equal, and
\* a NULL is equal to nothing.
Conflicts(rec, rows) ==
    \E k \in 1..Len(rows) :
        /\ rows[k].channel = rec.channel
        /\ rows[k].image_path = rec.image_path
        /\ rec.message_id # Null /\ rows[k].message_id = rec.message_id

InitEnrich ==
    /\ (InitCollide /\ ~incremental /\ images = {}) /\ InitRest
    /\ assets \in {A \in SUBSET AssetFiles : Cardinality(A) <= MaxAssets}
    /\ epc = "idle" /\ todo = {} /\ all_records = << >> /\ out_json = << >>
    /\ ins = 0 /\ image_detections = << >> /\ enrichRuns = 0
    /\ LoadIdle /\ InvIdle /\ PipeIdle

\* lines 107-109: connect, ensure_table (every statement IF NOT EXISTS)
yolo_main ==
    /\ epc = "idle" /\ enrichRuns < MaxStageRuns
    /\ all_records' = << >>
    /\ todo' = assets
    /\ epc' = "scan"
    /\ UNCHANGED << notEnrich, assets, out_json, ins, image_detections, enrichRuns >>

\* lines 111-138: one file of the listing
yolo_visit ==
    /\ epc = "scan"
    /\ \E a \in todo :
        /\ todo' = todo \ {a}
        /\ all_records' = IF is_valid_image(a) /\ run_yolo_on_image(a) # 0
                          THEN Append(all_records, Record(a)) ELSE all_records
    /\ UNCHANGED << notEnrich, assets, epc, out_json, ins, image_detections, enrichRuns >>

\* lines 140-142
yolo_save ==
    /\ epc = "scan" /\ todo = {}
    /\ out_json' = all_records
    /\ ins' = 1
    /\ epc' = "insert"
    /\ UNCHANGED << notEnrich, assets, todo, all_records, image_detections, enrichRuns >>

\* lines 146-151
yolo_insert ==
    /\ epc = "insert" /\ ins <= Len(all_records)
    /\ image_detections' =
            IF Conflicts(all_records[ins], image_detections) THEN image_detections
            ELSE Append(image_detections,
                        [id |-> Len(image_detections) + 1] @@ all_records[ins])
    /\ ins' = ins + 1
    /\ UNCHANGED << notEnrich, assets, epc, todo, all_records, out_json, enrichRuns >>

\* lines 152-155
yolo_commit ==
    /\ epc = "insert" /\ ins > Len(all_records)
    /\ enrichRuns' = enrichRuns + 1
    /\ epc' = "idle"
    /\ UNCHANGED << notEnrich, assets, todo, all_records, out_json, ins, image_detections >>

NextEnrich == yolo_main \/ yolo_visit \/ yolo_save \/ yolo_insert \/ yolo_commit

SpecEnrich == InitEnrich /\ [][NextEnrich]_vars

(***************************************************************************)
(* The raw load stage, src/scripts/load_raw_to_postgres.py.  A run of main *)
(* ingests every file MSG_DIR/<date>/<channel>.json into                   *)
(* raw.telegram_messages.                                                  *)
(***************************************************************************)
\* The files a day directory holds: a file exists once a line was appended.
LogFiles == {f \in SanNames \X Dates : log[f[1]][f[2]] # << >>}

\* lines 36-44: one tuple (channel, message_id, message_date, raw) per line
Rows(channel, lines) ==
    [k \in 1..Len(lines) |->
        [channel |-> channel, message_id |-> lines[k].id,
         message_date |-> lines[k].date, raw |-> lines[k]]]

\* INSERT ... ON CONFLICT DO NOTHING, lines 47-49, on the table of lines
\* 23-29: the only unique constraint is the primary key id, a serial the
\* insert does not supply, so no inserted row ever conflicts.
RECURSIVE executemany(_, _)
executemany(table, rows) ==
    IF rows = << >> THEN table
    ELSE executemany(Append(table, [id |-> Len(table) + 1] @@ Head(rows)), Tail(rows))

\* The log files prior runs of the scraper left for one source.
InitLoad ==
    /\ InitScan /\ limit = NoLimit /\ ~incremental /\ since = NoDate /\ until = NoDate
    /\ InitRest /\ EnrichIdle /\ InvIdle /\ PipeIdle
    /\ lpc = "idle" /\ files = {} /\ total = 0 /\ telegram_messages = << >> /\ loadRuns = 0

\* lines 52-58
load_main ==
    /\ lpc = "idle" /\ loadRuns < MaxStageRuns
    /\ files' = LogFiles
    /\ total' = 0
    /\ lpc' = "files"
    /\ UNCHANGED << notLoad, telegram_messages, loadRuns >>

\* lines 59-66 and ingest_file, lines 34-50: one file of the listing
ingest_file ==
    /\ lpc = "files"
    /\ \E f \in files :
        LET rows == Rows(f[1], log[f[1]][f[2]])
        IN  /\ files' = files \ {f}
            /\ telegram_messages' = executemany(telegram_messages, rows)
            /\ total' = total + Len(rows)
    /\ UNCHANGED << notLoad, lpc, loadRuns >>

\* lines 67-68
load_close ==
    /\ lpc = "files" /\ files = {}
    /\ lpc' = "idle"
    /\ loadRuns' = loadRuns + 1
    /\ UNCHANGED << notLoad, files, total, telegram_messages >>

NextLoad == load_main \/ ingest_file \/ load_close

SpecLoad == InitLoad /\ [][NextLoad]_vars

(***************************************************************************)
(* Several invocations of telegram_scraper.main sharing MANIFEST_DIR.      *)
(* Between lines 239-249 and 271-275 an invocation runs the loop over its  *)
(* sources, modelled above; here only its start, its end and the clock     *)
(* matter.                                                                 *)
(***************************************************************************)
Invocations == 1..MaxInvocations

\* line 239: datetime.utcnow().strftime("%Y%m%dT%H%M%SZ"), the second of the
\* clock and nothing finer
RunId(t) == t

InitInv ==
    /\ (InitCollide /\ ~incremental /\ images = {}) /\ InitRest /\ EnrichIdle /\ LoadIdle /\ PipeIdle
    /\ clock = 0
    /\ inv = [i \in Invocations |-> [st |-> "new", run_id |-> NoTime]]
    /\ manifestDir = {}

Tick ==
    /\ clock < MaxClock
    /\ clock' = clock + 1
    /\ UNCHANGED << notInv, inv, manifestDir >>

\* lines 239-249
StartRun(i) ==
    /\ inv[i].st = "new"
    /\ inv' = [inv EXCEPT ![i] = [st |-> "running", run_id |-> RunId(clock)]]
    /\ UNCHANGED << notInv, clock, manifestDir >>

\* an exception leaves the handler of line 258: lines 271-275 are not reached
AbortRun(i) ==
    /\ inv[i].st = "running"
    /\ inv' = [inv EXCEPT ![i].st = "crashed"]
    /\ UNCHANGED << notInv, clock, manifestDir >>

\* lines 271-275: open(MANIFEST_DIR / f"{run_id}.json", "w") truncates a file
\* of that name and writes the manifest of this invocation
FinishRun(i) ==
    /\ inv[i].st = "running"
    /\ manifestDir' = {f \in manifestDir : f.name # inv[i].run_id}
                      \cup {[name |-> inv[i].run_id, by |-> i, finished_at |-> clock]}
    /\ inv' = [inv EXCEPT ![i].st = "done"]
    /\ UNCHANGED << notInv, clock >>

NextInv == Tick \/ (\E i \in Invocations : StartRun(i) \/ AbortRun(i) \/ FinishRun(i))

SpecInv == InitInv /\ [][NextInv]_vars

(***************************************************************************)
(* load_seen_ids on its own, over log files with lines of every kind.      *)
(***************************************************************************)
LogLines == {message_to_serializable(Msg(i, D0610, NoMedia)) : i \in 1..2}
            \cup {NotJson, NoIntId, BadBytes}

InitIndex ==
    /\ API_ID = 12345 /\ API_HASH = "hash"
    /\ channels_file = << >> /\ cli_channels = << ChAt >>
    /\ requested = ReadChannels(channels_file, cli_channels)
    /\ limit = NoLimit /\ incremental = TRUE /\ since = NoDate /\ until = NoDate
    /\ feed = [c \in ChanNames |-> << >>]
    /\ \E today \in SeqsUpTo(LogLines, MaxLines), before \in SeqsUpTo(LogLines, 1) :
        log = [s \in SanNames |-> [d \in Dates |->
                  IF s # sanitize_filename(ChAt) THEN << >>
                  ELSE IF d = D0610 THEN today
                  ELSE IF d = D0601 THEN before ELSE << >>]]
    /\ images = {}
    /\ InitRest /\ EnrichIdle /\ LoadIdle /\ InvIdle /\ PipeIdle

\* lines 126-147, called for the one requested channel
BuildIndex ==
    /\ pc = "start"
    /\ seen_ids' \in load_seen_ids(requested[1])
    /\ pc' = "indexed"
    /\ UNCHANGED << stageVars, connected, srcWait, dlWait, inputVars, channels, chIdx, manifest,
                    manifestFiles, pass, cursor, count, dlVars, diskVars, histVars >>

NextIndex == BuildIndex

SpecIndex == InitIndex /\ [][NextIndex]_vars

(***************************************************************************)
(* The media fetch, download_with_retries, lines 106-123, under a provider *)
(* that may go on signalling.  Spec sends at most MaxFloods rate-limit     *)
(* signals to one transfer; here the provider may send more, and the       *)
(* counter floods stays at MaxFloods.  The loop of lines 109-121 has no    *)
(* deadline, so only an assumption on the provider ends the signals.       *)
(***************************************************************************)
\* One source whose feed carries photos, every filter.
InitFetch ==
    /\ API_ID = 12345 /\ API_HASH = "hash"
    /\ channels_file = << >> /\ cli_channels = << ChAt >>
    /\ requested = ReadChannels(channels_file, cli_channels)
    /\ limit = NoLimit
    /\ incremental \in BOOLEAN
    /\ since \in {NoDate, D0601}
    /\ until \in {NoDate, D0601}
    /\ feed = [c \in ChanNames |-> IF c = ChAt THEN ScenarioSince ELSE << >>]
    /\ \E P \in SUBSET FeedIds(ScenarioSince) :
        /\ log = [s \in SanNames |-> [d \in Dates |->
                    IF s = sanitize_filename(ChAt)
                    THEN PriorLines(ScenarioSince, P, d) ELSE << >>]]
        /\ images = PriorImages(ScenarioSince, P, sanitize_filename(ChAt))
    /\ InitRest /\ EnrichIdle /\ LoadIdle /\ InvIdle /\ PipeIdle

\* A wait of an hour, as a provider asks of a caller it keeps turning away.
LongFlood == 3600

\* lines 113-116: one more rate-limit signal after MaxFloods of them
DownloadFloodMore ==
    /\ pc = "download" /\ attempt < DefaultMaxRetries
    /\ floods = MaxFloods
    /\ \E s \in FloodSeconds \cup {LongFlood} :
        /\ dl_signal' = s                           \* fw.seconds
        /\ dl_slept' = download_flood_wait(s)       \* asyncio.sleep(wait + 1)
    /\ UNCHANGED << stageVars, srcWait, inputVars, mainVars, scanVars, dlVars, diskVars, histVars >>

NextFetch == Next \/ DownloadFloodMore

\* The provider issues only finitely many rate-limit signals.
FinitelyManySignals == <>[][~DownloadFloodMore]_vars

\* The one thread of control goes on as long as it has a step to take.
SpecFetch == InitFetch /\ [][NextFetch]_vars /\ WF_vars(NextFetch) /\ FinitelyManySignals

(***************************************************************************)
(* The job telegram_pipeline, src/dagster_pipeline.py.  The body of the    *)
(* job, lines 26-29, calls the four ops; an op depends on another op only  *)
(* through an output of that op passed to its call.  The executor of a run *)
(* starts any step whose upstream steps have succeeded, as many at once as *)
(* its configuration allows: one with the in-process executor, several     *)
(* with the multiprocess executor.                                         *)
(***************************************************************************)
\* lines 26-29: the calls in the body of the job, with their arguments
job_calls ==
    << [op |-> "scrape_op", args |-> << >>],
       [op |-> "load_op", args |-> << >>],
       [op |-> "dbt_op", args |-> << >>],
       [op |-> "yolo_op", args |-> << >>] >>

\* the ops whose outputs the call of op o takes
Upstream(o) ==
    {u \in Ops : \E k \in DOMAIN job_calls :
        /\ job_calls[k].op = o
        /\ \E a \in DOMAIN job_calls[k].args : job_calls[k].args[a] = u}

\* the steps that are over, and those among them that succeeded
Ended == {e.op : e \in ended}
Succeeded == {e.op : e \in {x \in ended : x.state = "success"}}

\* the steps that are running
Running == started \ Ended

\* A run of the job is launched; the scraper and the stages are the
\* subprocesses of lines 7, 12, 17 and 22, opaque here.
InitPipeline ==
    /\ (InitCollide /\ ~incremental /\ images = {}) /\ InitRest
    /\ EnrichIdle /\ LoadIdle /\ InvIdle
    /\ max_concurrent \in 1..Cardinality(Ops)
    /\ started = {} /\ ended = {}

\* the executor starts a step that is ready
StartOp(o) ==
    /\ max_concurrent > 0
    /\ o \notin started
    /\ Upstream(o) \subseteq Succeeded
    /\ Cardinality(Running) < max_concurrent
    /\ started' = started \cup {o}
    /\ UNCHANGED << notPipe, max_concurrent, ended >>

\* lines 7, 12, 17, 22: subprocess.run returns; the exit status is not looked at
FinishOp(o) ==
    /\ o \in Running
    /\ \E rc \in {0, 1} :
        ended' = ended \cup {[op |-> o, state |-> "success", returncode |-> rc]}
    /\ UNCHANGED << notPipe, max_concurrent, started >>

\* lines 7, 12, 17, 22: subprocess.run raises, the program is not there
FailOp(o) ==
    /\ o \in Running
    /\ ended' = ended \cup {[op |-> o, state |-> "failure", returncode |-> Null]}
    /\ UNCHANGED << notPipe, max_concurrent, started >>

NextPipeline ==
    \/ \E o \in Ops : StartOp(o)
    \/ \E o \in Ops : FinishOp(o)
    \/ \E o \in Ops : FailOp(o)

SpecPipeline == InitPipeline /\ [][NextPipeline]_vars

(***************************************************************************)
(* Vocabulary of the properties.                                           *)
(***************************************************************************)
RECURSIVE SeqToSet(_)
SeqToSet(q) == IF q = << >> THEN {} ELSE {Head(q)} \cup SeqToSet(Tail(q))

RECURSIVE SumOver(_, _)
SumOver(S, f) ==
    IF S = {} THEN 0
    ELSE LET x == CHOOSE y \in S : TRUE IN f[x] + SumOver(S \ {x}, f)

\* The source of the scan pass that runs or ran last.
PassCh == IF pc \in {"loop", "done"} THEN channels[chIdx - 1] ELSE channels[chIdx]
PassSan == sanitize_filename(PassCh)
PassFeed == iter_messages(PassCh)
PassReturned == pass # None /\ pc \in {"loop", "done"}
PassStatus == manifest.results[PassCh].status

\* The lines appended to the file of date d of source s since the disk was old.
Appended(old, s, d) == SubSeq(log[s][d], Len(old[s][d]) + 1, Len(log[s][d]))
AppendedIds(old, s) ==
    UNION {{Appended(old, s, d)[k].id : k \in 1..Len(Appended(old, s, d))} : d \in Dates}
AppendedCount(old, s) == SumOver(Dates, [d \in Dates |-> Len(Appended(old, s, d))])

\* What the current pass appended.
PassIds == AppendedIds(log0, PassSan)
PassCount == AppendedCount(log0, PassSan)

Unseen(k) == PassFeed[k].id \notin seen_ids
InWindow(m) ==
    /\ since = NoDate \/ msg_date(m) >= since
    /\ until = NoDate \/ msg_date(m) < until

(***************************************************************************)
(* C1.  A run over a non-empty source list always writes its manifest:     *)
(* whatever the outcomes of the sources, when main has ended there is a    *)
(* manifest file whose started_at and finished_at bracket the scans.       *)
(***************************************************************************)
MainEnded == pc \in {"done", "crashed"}

C1_ManifestAlwaysWritten ==
    MainEnded =>
        \E m \in manifestFiles :
            /\ m.started_at # NoTime
            /\ m.finished_at # NoTime
            /\ m.started_at < m.finished_at

(***************************************************************************)
(* C2.  A terminal error of one source never stops the run: when main has  *)
(* ended, scrape_channel was invoked for every source of the deduplicated  *)
(* list and the results hold an entry for it with status ok, ok_after_wait *)
(* or error:<cause>.                                                       *)
(***************************************************************************)
C2_EverySourceScannedAndRecorded ==
    MainEnded =>
        \A c \in SeqToSet(channels) :
            /\ c \in scanned
            /\ c \in DOMAIN manifest.results
            /\ manifest.results[c].status \in {"ok", "ok_after_wait", "error:cause"}

(***************************************************************************)
(* C3.  Incremental scan is idempotent: if every item the feed yields for  *)
(* the source has its id in the source's item log, a step of an            *)
(* incremental pass appends no line to any log file, starts no transfer,   *)
(* writes no image, and the pass returns 0.                                *)
(***************************************************************************)
\* log0 is the disk as load_seen_ids found it when the pass started.
AllYieldedOnDisk == FeedIds(iter_messages(ch)) \subseteq LogIds(log0, san)

\* C3: no step of such a pass touches the disk or counts an item; it returns 0.
C3_IncrementalScanIdempotent ==
    [][(pc \in {"iter", "download"} /\ incremental /\ AllYieldedOnDisk) =>
          /\ log' = log
          /\ images' = images
          /\ fetched' = fetched
          /\ pc' # "download"
          /\ count = 0 /\ count' = 0
          /\ (pc' = "loop" => manifest'.results[ch].processed = 0)]_vars

\* An incremental pass over a feed of several items, all on disk, returned 0.
C3_Witness ==
    /\ PassReturned /\ incremental /\ pass = "first"
    /\ Len(PassFeed) >= 2 /\ cursor = Len(PassFeed)
    /\ FeedIds(PassFeed) \subseteq LogIds(log, PassSan)
    /\ PassStatus = "ok" /\ manifest.results[PassCh].processed = 0
    /\ log = logAtStart

(***************************************************************************)
(* C4.  Early exit on the lower date bound: with since set, the scan loop  *)
(* stops at the first not-already-seen item dated before since.  That item *)
(* and the items after it are neither persisted nor downloaded; the        *)
(* not-already-seen items before it dated >= since (and < until when until *)
(* is set), an item dated exactly since included, are the persisted ones.  *)
(***************************************************************************)
C4_EarlyExitOnSince ==
    /\ (since # NoDate /\ pass # None /\ pc \in {"iter", "download", "flood_sleep", "flood_slept"}) =>
          \* the loop has not gone past an unseen item dated before since
          \A k \in 1..cursor : Unseen(k) => msg_date(PassFeed[k]) >= since
    /\ (since # NoDate /\ stopAt > 0) =>
          /\ PassReturned /\ cursor = stopAt
          /\ Unseen(stopAt) /\ msg_date(PassFeed[stopAt]) < since
          /\ \A k \in 1..(stopAt - 1) : Unseen(k) => msg_date(PassFeed[k]) >= since
          /\ PassIds = {PassFeed[k].id : k \in {j \in 1..(stopAt - 1) :
                            /\ Unseen(j)
                            /\ msg_date(PassFeed[j]) >= since
                            /\ until = NoDate \/ msg_date(PassFeed[j]) < until}}
          /\ PassCount = Cardinality(PassIds)
          /\ fetched \subseteq PassIds
          /\ \A k \in stopAt..Len(PassFeed) :
                PassFeed[k].id \notin PassIds /\ PassFeed[k].id \notin fetched

\* The loop stopped at the second item; the first, dated exactly since, is
\* persisted, the third, dated after since, is not.
C4_Witness ==
    /\ since # NoDate /\ stopAt = 2 /\ Len(PassFeed) = 3
    /\ msg_date(PassFeed[1]) = since /\ PassFeed[1].id \in PassIds
    /\ msg_date(PassFeed[3]) > since /\ PassFeed[3].id \notin PassIds
    /\ PassFeed[3].id \notin seen_ids

(***************************************************************************)
(* C5.  Scenario B: since = 2025-06-01, no prior log, a feed dated 06-10,  *)
(* 06-05, 05-20, 06-01 in that order.                                      *)
(***************************************************************************)
ScenarioBDone ==
    /\ PassReturned /\ pass = "first"
    /\ PassFeed = ScenarioB
    /\ since = D0601 /\ until = NoDate
    /\ \A d \in Dates : log0[PassSan][d] = << >>
    /\ PassStatus = "ok"

PassDates == {d \in Dates : Appended(log0, PassSan, d) # << >>}

\* C5 as stated: the items dated 06-10, 06-05 and 06-01 are persisted, and
\* iteration stops at the item dated 05-20 without inspecting any item after it.
C5_ScenarioB_AsStated ==
    ScenarioBDone => (PassDates = {D0610, D0605, D0601} /\ cursor = 3)

\* C5 as amended: the items dated 06-10 and 06-05 are persisted, iteration
\* stops at the item dated 05-20 without inspecting any item after it, and the
\* item dated 06-01, which the feed would yield after it, is not persisted.
C5_ScenarioB ==
    ScenarioBDone =>
        /\ PassDates = {D0610, D0605}
        /\ Appended(log0, PassSan, D0610) = << message_to_serializable(ScenarioB[1]) >>
        /\ Appended(log0, PassSan, D0605) = << message_to_serializable(ScenarioB[2]) >>
        /\ log[PassSan][D0601] = << >>
        /\ cursor = 3 /\ stopAt = 3
        /\ manifest.results[PassCh].processed = 2

C5_Witness == ScenarioBDone /\ PassCount = 2

(***************************************************************************)
(* C6.  The upper date bound is a per-item filter, not a stop: an item     *)
(* dated >= until (until itself excluded from the window) is not persisted *)
(* and not downloaded, the loop goes on to the next item, and every        *)
(* not-already-seen item the loop reached with since <= date < until is    *)
(* persisted.                                                              *)
(***************************************************************************)
C6_UntilFiltersInPass ==
    (until # NoDate /\ pass # None) =>
        \A k \in 1..cursor :
            /\ msg_date(PassFeed[k]) >= until =>
                  PassFeed[k].id \notin PassIds /\ PassFeed[k].id \notin fetched
            /\ (Unseen(k) /\ InWindow(PassFeed[k])) => PassFeed[k].id \in PassIds

\* The since test of line 163 comes before the until test of line 165.
C6_UntilIsNotAStop ==
    [][(/\ pc = "iter" /\ HasNext /\ cursor' = cursor + 1
        /\ until # NoDate /\ msg_date(msg) >= until
        /\ ~(since # NoDate /\ msg_date(msg) < since)) =>
          (pc' = "iter" /\ log' = log /\ images' = images /\ count' = count)]_vars

\* C6: items dated >= until are passed over without ending the loop.
C6_UntilIsAFilter == []C6_UntilFiltersInPass /\ C6_UntilIsNotAStop

\* An item dated exactly until was passed over and a later one persisted.
C6_Witness ==
    /\ until # NoDate /\ PassReturned
    /\ \E k \in 1..cursor : \E j \in (k + 1)..cursor :
          /\ Unseen(k) /\ msg_date(PassFeed[k]) = until /\ PassFeed[k].id \notin PassIds
          /\ PassFeed[j].id \in PassIds

(***************************************************************************)
(* C7.  Items skipped because their id is in the Dedup Index do not count  *)
(* toward the cap: with cap N, incremental, no date bounds and at least N  *)
(* items of the feed not in the index, a pass that returns has persisted N *)
(* new items.                                                              *)
(***************************************************************************)
NewInFeed == {k \in 1..Len(feed[PassCh]) : feed[PassCh][k].id \notin seen_ids}

C7_SeenItemsDoNotCountTowardCap ==
    (/\ PassReturned /\ incremental
     /\ limit # NoLimit /\ since = NoDate /\ until = NoDate
     /\ PassStatus \in {"ok", "ok_after_wait"}
     /\ Cardinality(NewInFeed) >= limit) =>
        (count = limit /\ PassCount = limit)

(***************************************************************************)
(* C8.  Asset failure is non-fatal to item persistence: the line of an     *)
(* item with an image is in the log before its transfer starts; when the   *)
(* attempts are used up download_with_retries returns None, the line       *)
(* stays, the item is counted and the loop goes on with the next item.     *)
(***************************************************************************)
C8_LineBeforeTransfer ==
    pc = "download" =>
        LET m == PassFeed[cur]
            file == log[PassSan][msg_date(m)]
        IN  /\ cur = cursor
            /\ file # << >>
            /\ file[Len(file)] = message_to_serializable(m)
            /\ m.id \in PassIds

C8_ExhaustionKeepsItem ==
    [][(pc = "download" /\ attempt >= DefaultMaxRetries) =>
          /\ downloaded' = NoPath
          /\ log' = log
          /\ count' = count + 1
          /\ pc' = "iter"
          /\ cursor' = cursor]_vars

\* C8: the line is written first and used-up attempts leave item and loop alone.
C8_AssetFailureNonFatal == []C8_LineBeforeTransfer /\ C8_ExhaustionKeepsItem

\* A transfer gave up, its item is in the log, and a later item was persisted.
C8_Witness ==
    /\ outcome = "gave_up" /\ downloaded = NoPath /\ pc = "iter"
    /\ cur < cursor /\ count >= 2
    /\ PassFeed[cur].id \in PassIds /\ PassFeed[cursor].id \in PassIds

(***************************************************************************)
(* C9.  Retry budget: only generic failures use up attempts.  The transfer *)
(* is given up exactly when the generic failures reach max_retries, never  *)
(* earlier; a rate-limit signal leaves the attempt counter unchanged.      *)
(***************************************************************************)
C9_AttemptsCountGenericFailures ==
    pc = "download" => (attempt = genFails /\ genFails <= DefaultMaxRetries)

C9_GiveUpExactlyAtBudget ==
    [][pc = "download" =>
          /\ (outcome' = "gave_up" /\ pc' # "download") => genFails = DefaultMaxRetries
          /\ genFails = DefaultMaxRetries => (outcome' = "gave_up" /\ pc' = "iter")
          /\ floods' = floods + 1 => (attempt' = attempt /\ pc' = "download")]_vars

\* C9: the transfer is given up exactly at max_retries generic failures.
C9_RetryBudget == []C9_AttemptsCountGenericFailures /\ C9_GiveUpExactlyAtBudget

\* Every rate-limit signal of the bound was received and the budget is used up
\* by generic failures alone.
C9_Witness ==
    pc = "download" /\ floods = MaxFloods /\ floods > 0 /\ genFails = DefaultMaxRetries

(***************************************************************************)
(* C10.  A rate-limit signal raised out of the feed iteration pauses the   *)
(* run, which then resumes the same feed: no new listing of the source is  *)
(* started and no item persisted before the signal is persisted again.     *)
(***************************************************************************)
C10_ResumeSameFeed ==
    /\ \A c \in ChanNames : listings[c] <= 1
    /\ \A s \in SanNames :
          AppendedCount(logAtStart, s) = Cardinality(AppendedIds(logAtStart, s))

(***************************************************************************)
(* C11: Media Retrieval never overwrites a stored asset.  The destination  *)
(* of an image is the plain name when no such file exists, otherwise the   *)
(* first free name among <stem>_1<ext>, <stem>_2<ext>, ... in increasing   *)
(* order; the chosen path does not exist when it is chosen, and a transfer *)
(* only ever adds the chosen path to the stored files.  Scenario C: with   *)
(* ch1_42_2025-06-01.jpg stored, the asset goes to ch1_42_2025-06-01_1.jpg *)
(* and the stored file stays.                                              *)
(***************************************************************************)
Transferring == iter_messages(ch)[cur]

C11_DestIsFirstFree ==
    pc = "download" =>
        /\ dest \notin images
        /\ dest = ImagePath(san, Transferring, dest.n)
        /\ \A j \in 0..(dest.n - 1) : ImagePath(san, Transferring, j) \in images

C11_OnlyAddsDest ==
    [][/\ images \subseteq images'
       /\ images' # images => dest \notin images /\ images' = images \cup {dest}]_vars

C11_ScenarioC ==
    (pc = "download" /\ ch = ChCh1 /\ images = {ImagePath(sanitize_filename(ChCh1), ScenarioC[1], 0)}) =>
        FileName(dest) = << "c", "h", "1", "_", "4", "2", "_", "2", "0", "2", "5", "-", "0",
                            "6", "-", "0", "1", "_", "1", ".", "j", "p", "g" >>

C11_NeverOverwrites == [](C11_DestIsFirstFree /\ C11_ScenarioC) /\ C11_OnlyAddsDest

C11_Witness ==
    /\ pc = "loop" /\ chIdx = 2 /\ channels = << ChCh1 >>
    /\ Cardinality(imagesAtStart) = 2
    /\ images = imagesAtStart \cup {ImagePath(sanitize_filename(ChCh1), ScenarioC[1], 2)}

(***************************************************************************)
(* C12: the enrichment is idempotent over repeated runs.  After any number *)
(* of completed runs of yolo_enrich.main over the same files the table     *)
(* holds exactly one row for every valid image with detections, whatever   *)
(* its file name, names without digits included: a second run adds no row. *)
(***************************************************************************)
RowsOf(a) == {k \in 1..Len(image_detections) : image_detections[k].image_path = image_path(a)}

C12_EnrichmentIdempotent ==
    (epc = "idle" /\ enrichRuns >= 1) =>
        \A a \in assets :
            Cardinality(RowsOf(a)) = IF is_valid_image(a) /\ run_yolo_on_image(a) # 0 THEN 1 ELSE 0

(***************************************************************************)
(* C13: the raw load is an idempotent upsert keyed on (source, item id).   *)
(* After any number of completed runs of load_raw_to_postgres.main over    *)
(* the same log files, raw.telegram_messages holds exactly one row for     *)
(* every (source, item id) of the log: a second run inserts nothing.       *)
(***************************************************************************)
C13_LoadIdempotent ==
    (lpc = "idle" /\ loadRuns >= 1) =>
        /\ \A s \in SanNames, d \in Dates : \A k \in 1..Len(log[s][d]) :
              Cardinality({j \in 1..Len(telegram_messages) :
                            /\ telegram_messages[j].channel = s
                            /\ telegram_messages[j].message_id = log[s][d][k].id}) = 1
        /\ \A j \in 1..Len(telegram_messages) :
              \E d \in Dates : \E k \in 1..Len(log[telegram_messages[j].channel][d]) :
                  log[telegram_messages[j].channel][d][k].id = telegram_messages[j].message_id

(***************************************************************************)
(* C14: the naming of Media Retrieval and the id extraction of the         *)
(* enrichment round-trip.  For every source name and item id, the first    *)
(* run of digits in the stem <sanitized source>_<item id>_<date>[_<n>] is  *)
(* the item id, so the message_id of a detection row is the id of the item *)
(* the asset was retrieved for, also when the source name holds digits.    *)
(***************************************************************************)
C14_ExtractedIdIsItemId ==
    \A k \in 1..Len(image_detections) : \A a \in assets :
        (image_path(a) = image_detections[k].image_path /\ a.item # 0) =>
            image_detections[k].message_id = a.item

(***************************************************************************)
(* C15: run ids are unique per invocation and a manifest is immutable once *)
(* written.  Any two invocations of main, also two that start within the   *)
(* same second, have different run ids; the manifest file an invocation    *)
(* wrote is never overwritten by another invocation, so the manifest of    *)
(* every finished invocation stays in MANIFEST_DIR as it was written.      *)
(***************************************************************************)
C15_RunIdsUniqueManifestsKept ==
    /\ \A i, j \in Invocations :
          (i # j /\ inv[i].st # "new" /\ inv[j].st # "new") => inv[i].run_id # inv[j].run_id
    /\ \A i \in Invocations :
          inv[i].st = "done" => \E f \in manifestDir : f.name = inv[i].run_id /\ f.by = i

(***************************************************************************)
(* C16: every rate-limit signal is honoured in full plus a fixed margin.   *)
(* After a FloodWaitError carrying s seconds, in download_with_retries and *)
(* in main, the next remote call on that path (the next download_media,    *)
(* the scrape_channel of line 262) is issued only after a sleep of s + 1   *)
(* seconds; the step that receives the signal uses up no attempt, ends no  *)
(* transfer and writes no result, and a source scanned again after a       *)
(* signal is recorded as ok_after_wait, never as an error.                 *)
(***************************************************************************)
C16_PauseBeforeNextCall ==
    /\ pc = "flood_slept" => src_slept = src_signal + 1
    /\ (pc = "download" /\ dl_signal # 0) => dl_slept = dl_signal + 1
    /\ pc = "iter" => src_signal = 0
    /\ \A c \in DOMAIN manifest.results :
          listings[c] = 2 => manifest.results[c].status = "ok_after_wait"

C16_SignalIsNoFailure ==
    [][((src_signal = 0 /\ src_signal' # 0) \/ floods' = floods + 1) =>
            /\ attempt' = attempt /\ genFails' = genFails /\ outcome' = outcome
            /\ manifest' = manifest /\ manifestFiles' = manifestFiles
            /\ count' = count /\ log' = log /\ images' = images
            /\ pc' \in {"download", "flood_sleep", "crashed"}]_vars

FirstIndex(seq, x) == CHOOSE i \in 1..Len(seq) : seq[i] = x /\ \A j \in 1..(i - 1) : seq[j] # x

C17_StableDedup ==
    manifest # NoManifest =>
        LET entries == FileEntries(channels_file) \o cli_channels
            chans == manifest.channels
        IN  /\ chans = channels
            /\ SeqToSet(chans) = SeqToSet(entries)
            /\ \A i, j \in 1..Len(chans) :
                  i < j => /\ chans[i] # chans[j]
                           /\ FirstIndex(entries, chans[i]) < FirstIndex(entries, chans[j])

C17_ScannedOnce ==
    [][(pc = "loop" /\ pc' = "iter") => channels[chIdx] \notin scanned]_vars

C17_DedupedSourceList == []C17_StableDedup /\ C17_ScannedOnce

C17_Witness ==
    /\ pc = "done"
    /\ channels_file = << << " ", "n", "x", " " >>, ChAt >>
    /\ cli_channels = << ChNews >>
    /\ manifest.channels = << ChNews, ChAt >>
    /\ manifest \in manifestFiles

(***************************************************************************)
(* C18: building the Dedup Index tolerates corrupt input and has no side   *)
(* effects.  Over any mix of well-formed and malformed lines in the log    *)
(* files of a source, load_seen_ids returns exactly the integer ids of the *)
(* well-formed records of all date directories (a malformed line does not  *)
(* keep the ids after it from being collected), and no file is modified.   *)
(***************************************************************************)
C18_IndexIsAllWellFormedIds ==
    pc = "indexed" =>
        /\ seen_ids = LogIds(log, sanitize_filename(requested[1]))
        /\ log = logAtStart /\ images = imagesAtStart

(***************************************************************************)
(* C19: missing required configuration is fatal at startup.  When          *)
(* TELEGRAM_API_ID or TELEGRAM_API_HASH is absent, main exits before a     *)
(* connection is opened and before any source is scanned; no item record   *)
(* is appended, no asset stored and no manifest written.                   *)
(***************************************************************************)
C19_NothingDone ==
    (API_ID = 0 \/ API_HASH = "") =>
        /\ pc \in {"start", "exit1"}
        /\ ~connected
        /\ scanned = {} /\ \A c \in ChanNames : listings[c] = 0
        /\ log = logAtStart /\ images = imagesAtStart
        /\ manifest = NoManifest /\ manifestFiles = {}

C19_ExitsAtOnce ==
    [][(pc = "start" /\ (API_ID = 0 \/ API_HASH = "")) => pc' = "exit1"]_vars

C19_MissingConfigIsFatal == []C19_NothingDone /\ C19_ExitsAtOnce

C19_Witness ==
    /\ pc = "exit1" /\ API_ID # 0 /\ API_HASH = ""
    /\ requested # << >> /\ feed[requested[1]] # << >>

(***************************************************************************)
(* C20: item persistence within a source preserves feed order and selects  *)
(* exactly the new items.  With no date bounds, the lines one scan pass    *)
(* appends are the records of exactly the items the feed yielded whose ids *)
(* are not in the index, each once, and in every (source, date) file they  *)
(* are in the order the feed yielded them.  Scenario A: index {1,2,3},     *)
(* feed 5,4,3,2,1: exactly 5 then 4 are appended.                          *)
(***************************************************************************)
RECURSIVE NewLines(_, _, _)
NewLines(f, S, d) ==
    IF f = << >> THEN << >>
    ELSE (IF Head(f).id \notin S /\ msg_date(Head(f)) = d
          THEN << [json |-> "object", id |-> Head(f).id, date |-> Head(f).date] >>
          ELSE << >>) \o NewLines(Tail(f), S, d)

PassCompleted == PassReturned /\ PassStatus \in {"ok", "ok_after_wait"}

C20_AppendsNewItemsInFeedOrder ==
    (PassCompleted /\ since = NoDate /\ until = NoDate) =>
        /\ \A d \in Dates : Appended(log0, PassSan, d) = NewLines(PassFeed, seen_ids, d)
        /\ \A d \in Dates : log0[PassSan][d] = SubSeq(log[PassSan][d], 1, Len(log0[PassSan][d]))
        /\ (PassFeed = ScenarioA /\ seen_ids = {1, 2, 3}) =>
              /\ Appended(log0, PassSan, D0610) =
                    << [json |-> "object", id |-> 5, date |-> D0610],
                       [json |-> "object", id |-> 4, date |-> D0610] >>
              /\ PassCount = 2

C20_Witness ==
    /\ PassCompleted /\ incremental /\ since = NoDate /\ until = NoDate
    /\ PassFeed = ScenarioA /\ seen_ids = {1, 2, 3}
    /\ PassIds = {5, 4}

(***************************************************************************)
(* C21: the processed count the manifest records for a source is the       *)
(* number of item records appended to the log of that source during the    *)
(* run, for every status: ok, error after some items were persisted, and   *)
(* ok_after_wait after a first pass that persisted items.                  *)
(***************************************************************************)
C21_ProcessedIsAppendedCount ==
    manifest # NoManifest =>
        \A c \in DOMAIN manifest.results :
            manifest.results[c].processed = AppendedCount(logAtStart, sanitize_filename(c))

(***************************************************************************)
(* C22: in incremental mode the item log of a source never holds two       *)
(* records with the same item id.  From a log without such a pair, as      *)
(* incremental runs leave it, every state of an incremental run keeps the  *)
(* log without one, also when a source is scanned a second time after a    *)
(* rate-limit exception (the feed yields each id at most once per pass).   *)
(***************************************************************************)
LoggedAt(lg, s) == UNION {{<< d, k >> : k \in 1..Len(lg[s][d])} : d \in Dates}

NoTwoRecords(lg) ==
    \A s \in SanNames : \A p, q \in LoggedAt(lg, s) :
        lg[s][p[1]][p[2]].id = lg[s][q[1]][q[2]].id => p = q

C22_NoDuplicateIds ==
    (incremental /\ NoTwoRecords(logAtStart)) => NoTwoRecords(log)

C22_Witness ==
    /\ incremental /\ NoTwoRecords(logAtStart)
    /\ PassReturned /\ PassStatus = "ok_after_wait"
    /\ log0 # logAtStart /\ PassCount >= 1

(***************************************************************************)
(* C23: the item log is append-only.  No step of scrape_channel or main,   *)
(* on success or on a failure path (asset failure, rate-limit exception,   *)
(* generic exception ending a source), removes, rewrites or reorders a     *)
(* record of a log file: the content of every log file in an earlier state *)
(* is a prefix of its content in a later state, so the items persisted     *)
(* before a source fails stay on disk.                                     *)
(***************************************************************************)
IsPrefix(a, b) == Len(a) <= Len(b) /\ a = SubSeq(b, 1, Len(a))

LogExtends(old, new) == \A s \in SanNames, d \in Dates : IsPrefix(old[s][d], new[s][d])

C23_LogAppendOnly == [][log' = log \/ LogExtends(log, log')]_vars

C23_Witness ==
    /\ PassReturned /\ PassStatus = "error:cause"
    /\ PassCount >= 1
    /\ outcome = "gave_up"

(***************************************************************************)
(* C24: a media fetch terminates when the provider issues only finitely    *)
(* many rate-limit signals: download_with_retries then returns, with the   *)
(* path of the stored asset, or with None once DefaultMaxRetries generic   *)
(* failures are counted (or, line 112, when the completed call hands back  *)
(* nothing).  No deadline bounds the rate-limit waits: while the attempts  *)
(* last a further signal is always possible, and a signal leaves the       *)
(* fetch where it was, so signals forever mean the fetch never returns.    *)
(***************************************************************************)
\* every fetch that starts returns
C24_EventuallyReturns == (pc = "download") ~> (pc # "download")

\* the three ways out of lines 109-123
C24_ReturnsPathOrNone ==
    [][(pc = "download" /\ pc' # "download") =>
          \/ outcome' = "ok" /\ downloaded' = dest /\ dest \in images'
          \/ outcome' = "nothing" /\ downloaded' = NoPath /\ attempt < DefaultMaxRetries
          \/ outcome' = "gave_up" /\ downloaded' = NoPath /\ genFails = DefaultMaxRetries]_vars

\* whatever the number of signals so far, the next call may be signalled too
C24_NoDeadline ==
    (pc = "download" /\ attempt < DefaultMaxRetries) => ENABLED (DownloadFlood \/ DownloadFloodMore)

\* a signal uses up nothing and the fetch goes on
C24_SignalKeepsFetching ==
    [][(DownloadFlood \/ DownloadFloodMore) =>
          pc' = "download" /\ attempt' = attempt /\ genFails' = genFails /\ downloaded' = downloaded]_vars

StageOrder == << "scrape_op", "load_op", "dbt_op", "yolo_op" >>
C25_StagesSequential ==
    \A k \in 2..Len(StageOrder) :
        StageOrder[k] \in started => StageOrder[k - 1] \in Ended

TypeOK ==
    /\ pc \in {"start", "indexed", "exit1", "no_channels", "loop", "iter", "download",
               "flood_sleep", "flood_slept", "crashed", "done"}
    /\ attempt \in 0..DefaultMaxRetries
    /\ floods \in 0..MaxFloods

====
